---- MODULE Spec2Model ----
(***************************************************************************)
(* A model of packages/react/plugins/component-testing/index.ts:           *)
(*   - nxComponentTestingPreset, the Cypress component-testing preset that *)
(*     derives a webpack config from the project graph and falls back to a *)
(*     base config when the graph cannot be used;                          *)
(*   - addRemoteToHost, the generator step that registers a module         *)
(*     federation remote in its host (config or manifest, remotes.d.ts,    *)
(*     routing entry point, app template);                                 *)
(*   - checkIsCommaNeeded, the text check used by the static-host splice.  *)
(*                                                                         *)
(* Text is a sequence of lexemes.  A lexeme is a one-character string, or  *)
(* a longer string standing for exactly those characters; no multi-        *)
(* character lexeme contains whitespace, ends with ",]" or overlaps one of *)
(* the markers the code searches for, so includes/indexOf/endsWith on the  *)
(* lexemes agree with the same calls on the characters.                    *)
(***************************************************************************)
EXTENDS Naturals, Sequences, FiniteSets, TLC

VARIABLES
  commaText,    \* the argument of checkIsCommaNeeded
  commaResult,  \* <<result>>, or <<>> before the call
  tree,         \* the generator's Tree: path -> content, or NoFile
  before,       \* the tree at the start of the last addRemoteToHost call
  call,         \* the options of the last addRemoteToHost call, or NoCall
  outcome,      \* "none" | "returned" | "threw" for that call
  error,        \* what was thrown, or NoError
  writes,       \* the paths tree.write was called on during that call, in order
  calls,        \* number of addRemoteToHost calls so far
  graph,        \* the cached project graph and workspace the preset reads
  preset,       \* what the last nxComponentTestingPreset call did
  presetCalls   \* number of nxComponentTestingPreset calls so far

vars == <<commaText, commaResult, tree, before, call, outcome, error, writes,
          calls, graph, preset, presetCalls>>

commaVars == <<commaText, commaResult>>
remoteVars == <<tree, before, call, outcome, error, writes, calls>>
presetVars == <<graph, preset, presetCalls>>

\* ------------------------------------------------------------------ bounds

MaxTextLen == 5
MaxCalls == 2
MaxPresetCalls == 2

\* ------------------------------------------------------------ text helpers

NoFile == <<"<no file>">>
Undefined == "<undefined>"

Range(s) == {s[i] : i \in 1..Len(s)}

\* JavaScript's \s, as far as the modelled texts go.
Whitespace == {" ", "\n"}

\* String.prototype.slice(from) and slice(0, to) with 0-based offsets.
SliceTo(s, to) == SubSeq(s, 1, to)
SliceFrom(s, from) == SubSeq(s, from + 1, Len(s))

\* String.prototype.endsWith
EndsWith(s, suffix) ==
  /\ Len(s) >= Len(suffix)
  /\ SubSeq(s, Len(s) - Len(suffix) + 1, Len(s)) = suffix

\* String.prototype.includes for a one-lexeme marker.
Includes(s, marker) == marker \in Range(s)

\* String.prototype.indexOf for a one-lexeme marker, 0-based; the marker occurs.
IndexOf(s, marker) == (CHOOSE i \in 1..Len(s) :
                         /\ s[i] = marker
                         /\ \A j \in 1..(i - 1) : s[j] # marker) - 1

\* The length of the whitespace run that starts at position i of s.
RECURSIVE WsRun(_, _)
WsRun(s, i) ==
  IF i <= Len(s) /\ s[i] \in Whitespace THEN 1 + WsRun(s, i + 1) ELSE 0

\* text.replace(/\s+/g, ''): every maximal run of whitespace is replaced by ''.
RECURSIVE ReplaceWsRuns(_)
ReplaceWsRuns(s) ==
  IF s = <<>> THEN <<>>
  ELSE LET n == WsRun(s, 1)
       IN IF n > 0 THEN ReplaceWsRuns(SubSeq(s, n + 1, Len(s)))
          ELSE <<Head(s)>> \o ReplaceWsRuns(Tail(s))

\* ------------------------------------------------------ checkIsCommaNeeded

\* checkIsCommaNeeded with the whitespace normalisation left out.
CommaNeededWithoutStrip(mfRemoteText) ==
  IF ~EndsWith(mfRemoteText, <<",", "]">>)
  THEN (IF mfRemoteText = <<"[", "]">> THEN FALSE ELSE TRUE)
  ELSE FALSE

checkIsCommaNeeded(mfRemoteText) ==
  LET remoteText == ReplaceWsRuns(mfRemoteText)
  IN IF ~EndsWith(remoteText, <<",", "]">>)
     THEN (IF remoteText = <<"[", "]">> THEN FALSE ELSE TRUE)
     ELSE FALSE

\* ------------------------------------------------------------ the Tree

\* The host project as readProjectConfiguration returns it.
HostName == "shell"
HostRoot == "apps/shell"
HostSourceRoot == "apps/shell/src"
Projects == {HostName}

joinPathFragments(a, b) == a \o "/" \o b

MFConfigPath == joinPathFragments(HostRoot, "module-federation.config.js")
ManifestPath == joinPathFragments(HostSourceRoot, "assets/module-federation.manifest.json")
DeclarationPath == joinPathFragments(HostSourceRoot, "remotes.d.ts")
BootstrapPath == HostSourceRoot \o "/bootstrap.ts"
AppModulePath == HostSourceRoot \o "/app/app.module.ts"
TemplatePath == joinPathFragments(HostSourceRoot, "app/app.component.html")

Paths == {MFConfigPath, ManifestPath, DeclarationPath, BootstrapPath,
          AppModulePath, TemplatePath}

\* tree.exists(path), tree.read(path, 'utf-8') (null when the file is absent)
Exists(t, path) == t[path] # NoFile
Read(t, path) == t[path]

\* A run of the generator so far: the tree, the tree.write calls made, and
\* the error thrown (NoError while it is still running).
NoError == "<no error>"
Running(st) == st.error = NoError
Throw(st, e) == [st EXCEPT !.error = e]
WriteFile(st, path, content) ==
  [st EXCEPT !.tree[path] = content, !.writes = Append(@, path)]

\* ----------------------------------------------------- generator options

AppNames == {"a", "b"}
Ports == {"4201", "4202"}

\* names(appName).className
ClassName(appName) == IF appName = "a" THEN "A" ELSE "B"

Options == [mfType : {"remote", "host"},
            host : {Undefined, HostName, "ghost"},
            appName : AppNames,
            port : Ports,
            standalone : BOOLEAN]

\* ------------------------------------------------- determineHostFederationType

determineHostFederationType(t, pathToMfManifest) ==
  IF Exists(t, pathToMfManifest) THEN "dynamic" ELSE "static"

\* ------------------------------------------------------ addRemoteToStaticHost

\* tsquery(ast, 'Identifier[name=remotes] ~ ArrayLiteralExpression')[0]: the
\* array literal that follows the "remotes:" property name, as the pair of
\* 1-based positions of its "[" and of its "]"; NoNode when there is none.
\* The modelled configs do not nest arrays.
NoNode == <<0, 0>>

RemotesNode(hostMFConfig) ==
  LET n == Len(hostMFConfig)
      ids == {i \in 1..n : hostMFConfig[i] = "remotes:"}
      opens == {i \in 1..n : /\ hostMFConfig[i] = "["
                             /\ \E k \in ids : k < i}
  IN IF opens = {} THEN NoNode
     ELSE LET open == CHOOSE i \in opens : \A j \in opens : i <= j
              closes == {i \in (open + 1)..n : hostMFConfig[i] = "]"}
          IN IF closes = {} THEN NoNode
             ELSE <<open, CHOOSE i \in closes : \A j \in closes : i <= j>>

\* mfRemotesNode.getText()
NodeText(hostMFConfig, node) == SubSeq(hostMFConfig, node[1], node[2])

\* mfRemotesNode.getEnd(): the 0-based offset just past the node's "]".
NodeEnd(node) == node[2]

\* The text addRemoteToStaticHost writes for a config whose remotes array is node.
UpdatedConfig(hostMFConfig, node, appName) ==
  LET endOfPropertiesPos == NodeEnd(node) - 1
      isCommaNeeded == checkIsCommaNeeded(NodeText(hostMFConfig, node))
  IN SliceTo(hostMFConfig, endOfPropertiesPos)
       \o (IF isCommaNeeded THEN <<",">> ELSE <<>>)
       \o <<"'", appName, "'", ",">>
       \o SliceFrom(hostMFConfig, endOfPropertiesPos)

\* addRemoteToStaticHost returning quietly, instead of throwing, when the
\* config file is missing.
StaticHostSkippingMissingConfig(st, options) ==
  LET hostMFConfigPath == joinPathFragments(HostRoot, "module-federation.config.js")
  IN IF ~Exists(st.tree, hostMFConfigPath) THEN st
     ELSE LET hostMFConfig == Read(st.tree, hostMFConfigPath)
              mfRemotesNode == RemotesNode(hostMFConfig)
          IN IF mfRemotesNode = NoNode
             THEN Throw(st, "TypeError: mfRemotesNode is undefined")
             ELSE WriteFile(st, hostMFConfigPath,
                            UpdatedConfig(hostMFConfig, mfRemotesNode, options.appName))

addRemoteToStaticHost(st, options) ==
  LET hostMFConfigPath == joinPathFragments(HostRoot, "module-federation.config.js")
  IN IF ~Exists(st.tree, hostMFConfigPath)
     THEN Throw(st, "Error: no module-federation.config.js")
     ELSE LET hostMFConfig == Read(st.tree, hostMFConfigPath)
              mfRemotesNode == RemotesNode(hostMFConfig)
          IN IF mfRemotesNode = NoNode
             THEN Throw(st, "TypeError: mfRemotesNode is undefined")
             ELSE WriteFile(st, hostMFConfigPath,
                            UpdatedConfig(hostMFConfig, mfRemotesNode, options.appName))

\* ----------------------------------------------------- addRemoteToDynamicHost

\* The manifest file is JSON text: the keys and values of one object, in
\* order, as the lexemes k1, v1, k2, v2, ...  JSON.parse gives the object as
\* the sequence of its <<key, value>> entries; JSON.stringify writes it back.
ParseJson(text) == [i \in 1..(Len(text) \div 2) |-> <<text[2 * i - 1], text[2 * i]>>]

RECURSIVE SerializeJson(_)
SerializeJson(obj) ==
  IF obj = <<>> THEN <<>> ELSE Head(obj) \o SerializeJson(Tail(obj))

Keys(obj) == {obj[i][1] : i \in 1..Len(obj)}

\* { [key]: value } without the spread of the manifest.
SpreadDropped(manifest, key, value) == <<(<<key, value>>)>>

\* { ...manifest, [key]: value }: an own key keeps its place and takes the new
\* value, a new key goes last.
SpreadWith(manifest, key, value) ==
  IF key \in Keys(manifest)
  THEN [i \in 1..Len(manifest) |->
          IF manifest[i][1] = key THEN <<key, value>> ELSE manifest[i]]
  ELSE Append(manifest, <<key, value>>)

RemoteUrl(port) == "http://localhost:" \o port

addRemoteToDynamicHost(st, options, pathToMfManifest) ==
  LET manifest == ParseJson(Read(st.tree, pathToMfManifest))
  IN WriteFile(st, pathToMfManifest,
               SerializeJson(SpreadWith(manifest, options.appName,
                                        RemoteUrl(options.port))))

\* ------------------------------------------ addLazyLoadedRouteToHostAppModule

MenuOpen == "<ul class=\"remote-menu\">"
MenuClose == "</ul>"
ForRoot == "RouterModule.forRoot("
LoadRemoteImport == "import { loadRemoteModule } from '@nrwl/angular/mf';"

\* The lexemes of `<li><a routerLink='${appName}'>${className}</a></li>\n`.
MenuEntry(appName) ==
  <<"<li><a routerLink='", appName, "'>", ClassName(appName), "</a></li>", "\n">>

RouteToAdd(options, hostFederationType) ==
  LET routePathName == IF options.standalone THEN "Routes" ELSE "Module"
  IN IF hostFederationType = "dynamic"
     THEN "loadRemoteModule('" \o options.appName \o "', './" \o routePathName \o "')"
     ELSE "import('" \o options.appName \o "/" \o routePathName \o "')"

\* The route object handed to addRoute (entry = RemoteEntryModule) or to
\* addStandaloneRoute (entry = RemoteRoutes).
RouteObject(options, hostFederationType, entry) ==
  "{ path: '" \o options.appName \o "', loadChildren: () => "
    \o RouteToAdd(options, hostFederationType) \o ".then(m => m." \o entry \o ") }"

\* insertImport: adds the import at the top of the file and writes the file,
\* unless the symbol is already imported.
InsertImport(st, path) ==
  LET file == Read(st.tree, path)
  IN IF Includes(file, LoadRemoteImport) THEN st
     ELSE WriteFile(st, path, <<LoadRemoteImport>> \o file)

\* addRoute / addStandaloneRoute: put the route first in the routes array of
\* the RouterModule.forRoot( call and write the file; astThrows is the case
\* where the AST utility finds no place for it and throws.
InsertRoute(st, path, route, astThrows) ==
  IF astThrows THEN Throw(st, "Error: no routes array found")
  ELSE LET file == Read(st.tree, path)
           at == IndexOf(file, ForRoot) + 1
       IN WriteFile(st, path,
                    SubSeq(file, 1, at) \o <<route>> \o SubSeq(file, at + 1, Len(file)))

\* PatchTemplate looking for any closing </ul> without asking for the
\* remote-menu list.
PatchTemplateAnyList(st, options) ==
  LET pathToAppComponentTemplate == joinPathFragments(HostSourceRoot, "app/app.component.html")
      appComponent == Read(st.tree, pathToAppComponentTemplate)
  IN IF appComponent = NoFile
     THEN Throw(st, "TypeError: appComponent is null")
     ELSE IF Includes(appComponent, MenuClose)
          THEN LET indexOfClosingMenuTag == IndexOf(appComponent, MenuClose)
               IN WriteFile(st, pathToAppComponentTemplate,
                            SliceTo(appComponent, indexOfClosingMenuTag)
                              \o MenuEntry(options.appName)
                              \o SliceFrom(appComponent, indexOfClosingMenuTag))
          ELSE st

\* Lines 430-447: the app template's remote menu.
PatchTemplate(st, options) ==
  LET pathToAppComponentTemplate == joinPathFragments(HostSourceRoot, "app/app.component.html")
      appComponent == Read(st.tree, pathToAppComponentTemplate)
  IN IF appComponent = NoFile
     THEN Throw(st, "TypeError: appComponent is null")
     ELSE IF Includes(appComponent, MenuOpen) /\ Includes(appComponent, MenuClose)
          THEN LET indexOfClosingMenuTag == IndexOf(appComponent, MenuClose)
               IN WriteFile(st, pathToAppComponentTemplate,
                            SliceTo(appComponent, indexOfClosingMenuTag)
                              \o MenuEntry(options.appName)
                              \o SliceFrom(appComponent, indexOfClosingMenuTag))
          ELSE st

addLazyLoadedRouteToHostAppModule(st, options, hostFederationType, astThrows) ==
  LET bootstrap == Read(st.tree, joinPathFragments(HostSourceRoot, "bootstrap.ts"))
  IN IF bootstrap = NoFile
     THEN Throw(st, "TypeError: bootstrap.ts is null")
     ELSE
       LET isHostStandalone == ~Includes(bootstrap, "bootstrapModule")
           pathToHostRootRouting ==
             IF isHostStandalone THEN HostSourceRoot \o "/bootstrap.ts"
                                 ELSE HostSourceRoot \o "/app/app.module.ts"
       IN IF ~Exists(st.tree, pathToHostRootRouting) THEN st
          ELSE
            LET hostRootRoutingFile == Read(st.tree, pathToHostRootRouting)
            IN IF ~Includes(hostRootRoutingFile, ForRoot) THEN st
               ELSE
                 LET s1 == IF hostFederationType = "dynamic"
                           THEN InsertImport(st, pathToHostRootRouting)
                           ELSE st
                     entry == IF Includes(hostRootRoutingFile, "@NgModule")
                              THEN "RemoteEntryModule" ELSE "RemoteRoutes"
                     s2 == InsertRoute(s1, pathToHostRootRouting,
                                       RouteObject(options, hostFederationType, entry),
                                       astThrows)
                 IN IF Running(s2) THEN PatchTemplate(s2, options) ELSE s2

\* ------------------------------------------------------------ addRemoteToHost

\* The text appended to remotes.d.ts.
Declaration(options) ==
  <<"\n", "declare module '", options.appName, "/",
    IF options.standalone THEN "Routes" ELSE "Module", "';">>

\* The guard of addRemoteToHost with || in place of &&.
IsRemoteOrHasHost(options) ==
  options.mfType = "remote" \/ options.host # Undefined

IsRemoteWithHost(options) ==
  options.mfType = "remote" /\ options.host # Undefined

\* addRemoteToHost appending to remotes.d.ts before it touches the
\* federation config.
AddRemoteToHostDeclaringFirst(st, options, astThrows) ==
  IF ~IsRemoteWithHost(options) THEN st
  ELSE IF options.host \notin Projects
  THEN Throw(st, "Error: cannot find configuration for the host")
  ELSE
    LET pathToMFManifest ==
          joinPathFragments(HostSourceRoot, "assets/module-federation.manifest.json")
        hostFederationType == determineHostFederationType(st.tree, pathToMFManifest)
        declarationFilePath == joinPathFragments(HostSourceRoot, "remotes.d.ts")
        declarationFileContent ==
          (IF Exists(st.tree, declarationFilePath)
           THEN Read(st.tree, declarationFilePath) ELSE <<>>)
            \o Declaration(options)
        s1 == WriteFile(st, declarationFilePath, declarationFileContent)
        s2 == IF hostFederationType = "static"
              THEN addRemoteToStaticHost(s1, options)
              ELSE addRemoteToDynamicHost(s1, options, pathToMFManifest)
    IN IF ~Running(s2) THEN s2
       ELSE addLazyLoadedRouteToHostAppModule(s2, options, hostFederationType, astThrows)

addRemoteToHost(st, options, astThrows) ==
  IF ~IsRemoteWithHost(options) THEN st
  ELSE IF options.host \notin Projects
  THEN Throw(st, "Error: cannot find configuration for the host")
  ELSE
    LET pathToMFManifest ==
          joinPathFragments(HostSourceRoot, "assets/module-federation.manifest.json")
        hostFederationType == determineHostFederationType(st.tree, pathToMFManifest)
        s1 == IF hostFederationType = "static"
              THEN addRemoteToStaticHost(st, options)
              ELSE addRemoteToDynamicHost(st, options, pathToMFManifest)
    IN IF ~Running(s1) THEN s1
       ELSE
         LET declarationFilePath == joinPathFragments(HostSourceRoot, "remotes.d.ts")
             declarationFileContent ==
               (IF Exists(s1.tree, declarationFilePath)
                THEN Read(s1.tree, declarationFilePath) ELSE <<>>)
                 \o Declaration(options)
             s2 == WriteFile(s1, declarationFilePath, declarationFileContent)
         IN addLazyLoadedRouteToHostAppModule(s2, options, hostFederationType, astThrows)

\* ------------------------------------------------- specification: the comma check

Alphabet == {"[", "]", ",", " ", "\n", "'", "a"}

\* The three texts the documentation names.
ExampleTexts == { <<"[", "]">>,
                  <<"[", " ", "'", "a", "'", " ", "]">>,
                  <<"[", "'", "a", "'", ",", "]">> }

Texts == UNION {[1..k -> Alphabet] : k \in 0..MaxTextLen} \cup ExampleTexts

NoCall == [mfType |-> "none", host |-> Undefined, appName |-> "a",
           port |-> "4201", standalone |-> FALSE]
EmptyTree == [p \in Paths |-> NoFile]

RemoteIdle ==
  /\ tree = EmptyTree
  /\ before = EmptyTree
  /\ call = NoCall
  /\ outcome = "none"
  /\ error = NoError
  /\ writes = <<>>
  /\ calls = 0

CommaIdle ==
  /\ commaText = <<>>
  /\ commaResult = <<>>

CommaInit ==
  /\ commaText \in Texts
  /\ commaResult = <<>>

CheckIsCommaNeeded ==
  /\ commaResult = <<>>
  /\ commaResult' = <<checkIsCommaNeeded(commaText)>>
  /\ UNCHANGED commaText

\* ------------------------------------------- specification: remote registration

ConfigFile(array) == <<"module.exports={", "remotes:">> \o array \o <<"}", ";">>

InitArrays == { <<"[", "]">>,
                <<"[", "'", "x", "'", "]">>,
                <<"[", "'", "x", "'", ",", "]">>,
                <<"[", " ", "'", "x", "'", ",", " ", "]">>,
                <<"[", "\n", "'", "x", "'", ",", "/**/", "\n", "]">> }

InitConfigs == {NoFile, <<"module.exports={", "}", ";">>}
                 \cup {ConfigFile(a) : a \in InitArrays}

InitManifests == { <<>>,
                   <<"a", "http://localhost:4200", "x", "https://x.example">> }

\* <<config, manifest>>: a static host has no manifest.
InitFederation == {<<c, NoFile>> : c \in InitConfigs}
                    \cup {<<ConfigFile(<<"[", "]">>), m>> : m \in InitManifests}

StandaloneBootstrap == <<"bootstrapApplication(", ForRoot, "[", "]", ")">>
ModuleBootstrap == <<"platformBrowserDynamic().", "bootstrapModule", "(AppModule)">>

\* <<bootstrap.ts, app/app.module.ts>>
InitRouting == { <<NoFile, NoFile>>,
                 <<StandaloneBootstrap, NoFile>>,
                 <<(<<"bootstrapApplication(", ")">>), NoFile>>,
                 <<ModuleBootstrap, (<<"@NgModule", ForRoot, "[", "]", ")">>)>>,
                 <<ModuleBootstrap, NoFile>>,
                 <<ModuleBootstrap, (<<"@NgModule">>)>> }

InitTemplates == { NoFile,
                   <<"<h1>">>,
                   <<"<ul>", "<li>", "</ul>">>,
                   <<MenuOpen, MenuClose>>,
                   <<"<ul>", MenuClose, MenuOpen, MenuClose>>,
                   <<MenuOpen, MenuClose, "<ul>", MenuClose>> }

HostTree(fed, routing, template) ==
  [p \in Paths |->
     IF p = MFConfigPath THEN fed[1]
     ELSE IF p = ManifestPath THEN fed[2]
     ELSE IF p = BootstrapPath THEN routing[1]
     ELSE IF p = AppModulePath THEN routing[2]
     ELSE IF p = TemplatePath THEN template
     ELSE NoFile]

\* The options the generator is run with: every effective combination, and
\* one representative of each way of not being a remote with an existing host.
Inputs == {o \in Options :
             \/ (IsRemoteWithHost(o) /\ o.host \in Projects)
             \/ (o.appName = "a" /\ o.port = "4201" /\ o.standalone)}

RemoteInit ==
  /\ \E fed \in InitFederation, routing \in InitRouting, template \in InitTemplates :
       tree = HostTree(fed, routing, template)
  /\ before = tree
  /\ call = NoCall
  /\ outcome = "none"
  /\ error = NoError
  /\ writes = <<>>
  /\ calls = 0

AddRemoteToHost ==
  /\ calls < MaxCalls
  /\ \E options \in Inputs, astThrows \in BOOLEAN :
       LET st == addRemoteToHost([tree |-> tree, writes |-> <<>>, error |-> NoError],
                                 options, astThrows)
       IN /\ tree' = st.tree
          /\ writes' = st.writes
          /\ error' = st.error
          /\ outcome' = IF Running(st) THEN "returned" ELSE "threw"
          /\ call' = options
  /\ before' = tree
  /\ calls' = calls + 1

\* --------------------------------------------------- the project graph

\* A value, or the error thrown instead of it.
Ok(v) == [ok |-> TRUE, value |-> v, error |-> NoError]
Err(e) == [ok |-> FALSE, value |-> Undefined, error |-> e]

NoTarget == [exists |-> FALSE, devServerTarget |-> <<Undefined>>,
             optimization |-> Undefined, compiler |-> Undefined]
Target(devServerTarget, optimization, compiler) ==
  [exists |-> TRUE, devServerTarget |-> devServerTarget,
   optimization |-> optimization, compiler |-> compiler]

NodeNames == {"lib", "app"}
TargetNames == {"component-test", "ct", "build"}
NoTargets == [t \in TargetNames |-> NoTarget]

\* graph.nodes[name]: absent, present without data, or with data.
NoNodeEntry == [present |-> FALSE, data |-> FALSE, name |-> Undefined,
                root |-> Undefined, targets |-> NoTargets]
NodeWithoutData == [NoNodeEntry EXCEPT !.present = TRUE]
NodeWithData(name, root, targets) ==
  [present |-> TRUE, data |-> TRUE, name |-> name, root |-> root, targets |-> targets]
HasData(g, name) == name \in NodeNames /\ g.nodes[name].present /\ g.nodes[name].data

\* The config path handed to the preset: a file of the lib project or its directory.
ConfigFilePath == [path |-> "libs/lib/cypress.config", ext |-> ".ts", isFile |-> TRUE]
ConfigDirPath == [path |-> "libs/lib", ext |-> "", isFile |-> FALSE]
ConfigPaths == {ConfigFilePath, ConfigDirPath}

\* parseTargetString: "project:target[:configuration]", the text given as its
\* lexemes (names and ":").
parseTargetString(buildTarget) ==
  [project |-> buildTarget[1],
   target |-> buildTarget[3],
   configuration |-> IF Len(buildTarget) >= 5 THEN buildTarget[5] ELSE Undefined]

\* readTargetOptions(target, context): the options of the project's target
\* as the context's workspace has them; a TypeError when the project or the
\* target is not there.
readTargetOptions(g, project, target) ==
  IF ~HasData(g, project) THEN Err("TypeError: project not in workspace")
  ELSE IF target \notin TargetNames \/ ~g.nodes[project].targets[target].exists
  THEN Err("TypeError: target is undefined")
  ELSE Ok(g.nodes[project].targets[target])

\* ----------------------------------------------------------- getConfigByPath

\* The graph with the located project's name filled in when it was undefined.
BackfillName(g, name) ==
  IF HasData(g, name) /\ g.nodes[name].name = Undefined
  THEN [g EXCEPT !.nodes[name].name = name]
  ELSE g

\* mapProjectGraphFiles(graph).allFiles[normalizedPathFromWorkspaceRoot]
OwnerOf(g, configPath) ==
  LET normalizedPathFromWorkspaceRoot == configPath.path
  IN IF configPath.isFile /\ normalizedPathFromWorkspaceRoot = "libs/lib/cypress.config"
     THEN g.fileOwner ELSE Undefined

getConfigByPath(g, configPath) ==
  LET componentTestingProjectName == OwnerOf(g, configPath)
  IN IF componentTestingProjectName = Undefined
        \/ ~HasData(g, componentTestingProjectName)
     THEN Err("Error: Unable to find the project configuration")
     ELSE Ok(BackfillName(g, componentTestingProjectName).nodes[componentTestingProjectName])

\* ------------------------------------------------------- withSchemaDefaults

withSchemaDefaults(g, parsed) ==
  LET r == readTargetOptions(g, parsed.project, parsed.target)
  IN IF ~r.ok THEN r
     ELSE Ok([r.value EXCEPT
                !.compiler = IF @ = Undefined THEN "babel" ELSE @])

\* ------------------------------------------------------- buildTargetWebpack

IsScriptOptimizeOn(optimization) ==
  IF optimization \in {"true", "false"} THEN optimization = "true"
  ELSE IF optimization = "scripts:true" THEN TRUE
  ELSE FALSE

buildTargetWebpack(g, buildTarget, componentTestingProjectName, builderThrows) ==
  LET parsed == parseTargetString(buildTarget)
  IN IF ~HasData(g, parsed.project) \/ ~HasData(g, componentTestingProjectName)
     THEN Err("Error: Unable to load project configs from graph")
     ELSE
       LET ctProjectConfig == g.nodes[componentTestingProjectName]
           options == withSchemaDefaults(g, parsed)
       IN IF ~options.ok THEN options
          ELSE IF builderThrows THEN Err("Error: getWebConfig failed")
          ELSE Ok([builder |-> "getWebConfig",
                   root |-> ctProjectConfig.root,
                   compiler |-> options.value.compiler,
                   isDevServer |-> TRUE,
                   isScriptOptimizeOn |-> IsScriptOptimizeOn(options.value.optimization),
                   configuration |-> parsed.configuration])

\* ------------------------------------------------- nxComponentTestingPreset

\* buildBaseWebpackConfig({ tsConfigPath: 'tsconfig.cy.json', compiler: 'babel' })
FallbackWebpackConfig ==
  [builder |-> "buildBaseWebpackConfig", tsConfigPath |-> "tsconfig.cy.json",
   compiler |-> "babel"]

FallbackWarning == "Unable to build a webpack config with the project graph. Falling back to default webpack config."

\* The body of the try block: the webpack config, or the error thrown.
ResolveFromGraph(g, pathToConfig, options, builderThrows) ==
  IF ~g.cached THEN Err("Error: No cached ProjectGraph is available")
  ELSE
    LET config == getConfigByPath(g, pathToConfig)
    IN IF ~config.ok THEN config
       ELSE
         LET g1 == BackfillName(g, OwnerOf(g, pathToConfig))
             ctProjectName == config.value.name
             ctTargetName == IF options.ctTargetName \in {Undefined, ""}
                             THEN "component-test" ELSE options.ctTargetName
             ctExecutorOptions == readTargetOptions(g1, ctProjectName, ctTargetName)
         IN IF ~ctExecutorOptions.ok THEN ctExecutorOptions
            ELSE
              LET buildTarget == ctExecutorOptions.value.devServerTarget
              IN IF buildTarget \in {<<Undefined>>, <<>>}
                 THEN Err("Error: Unable to find the 'devServerTarget' executor option")
                 ELSE buildTargetWebpack(g1, buildTarget, ctProjectName, builderThrows)

\* The catch block of nxComponentTestingPreset that rethrows instead of falling back.
PresetRethrowing(g, pathToConfig, options, builderThrows) ==
  LET r == ResolveFromGraph(g, pathToConfig, options, builderThrows)
  IN [returned |-> r.ok,
      warnings |-> <<>>,
      base |-> pathToConfig.path,
      devServer |-> [framework |-> "react", bundler |-> "webpack",
                     webpackConfig |-> IF r.ok THEN r.value ELSE Undefined]]

nxComponentTestingPreset(g, pathToConfig, options, builderThrows) ==
  LET r == ResolveFromGraph(g, pathToConfig, options, builderThrows)
  IN [returned |-> TRUE,
      warnings |-> IF r.ok THEN <<>> ELSE <<FallbackWarning, r.error>>,
      base |-> pathToConfig.path,
      devServer |-> [framework |-> "react", bundler |-> "webpack",
                     webpackConfig |-> IF r.ok THEN r.value ELSE FallbackWebpackConfig]]

\* ------------------------------------------------ specification: the preset

\* The component-test targets a lib project may carry.
InitCtTargets ==
  {NoTarget} \cup
  {Target(d, Undefined, Undefined) :
     d \in { <<Undefined>>, <<>>, <<"app", ":", "build">>,
             <<"app", ":", "build", ":", "production">>,
             <<"ghost", ":", "build">> }}

InitLibTargets ==
  {[t \in TargetNames |->
      IF t = "component-test" THEN ct
      ELSE IF t = "ct" THEN custom
      ELSE NoTarget] :
     ct \in InitCtTargets,
     custom \in {NoTarget, Target(<<"app", ":", "build">>, Undefined, Undefined)}}

InitLibNodes ==
  {NoNodeEntry, NodeWithoutData} \cup
  {NodeWithData(name, "libs/lib", targets) :
     name \in {Undefined, "lib", "other"}, targets \in InitLibTargets}

InitBuildTargets ==
  {NoTarget,
   Target(<<Undefined>>, Undefined, Undefined),
   Target(<<Undefined>>, "true", Undefined),
   Target(<<Undefined>>, "false", "swc"),
   Target(<<Undefined>>, "scripts:true", Undefined),
   Target(<<Undefined>>, "scripts:false", Undefined)}

InitAppNodes ==
  {NoNodeEntry, NodeWithoutData} \cup
  {NodeWithData("app", "apps/app", [NoTargets EXCEPT !["build"] = b]) :
     b \in InitBuildTargets}

InitGraphs ==
  [cached : BOOLEAN,
   fileOwner : {Undefined, "lib", "ghost"},
   nodes : {[n \in NodeNames |-> IF n = "lib" THEN l ELSE a] :
              l \in InitLibNodes, a \in InitAppNodes}]

PresetOptions == {[ctTargetName |-> n] : n \in {Undefined, "", "ct"}}

NoPresetCall == [called |-> FALSE]

PresetIdle ==
  /\ graph = [cached |-> FALSE]
  /\ preset = NoPresetCall
  /\ presetCalls = 0

PresetInit ==
  /\ graph \in InitGraphs
  /\ preset = NoPresetCall
  /\ presetCalls = 0

NxComponentTestingPreset ==
  /\ presetCalls < MaxPresetCalls
  /\ \E pathToConfig \in ConfigPaths, options \in PresetOptions, builderThrows \in BOOLEAN :
       /\ preset' = [called |-> TRUE,
                     graph |-> graph,
                     pathToConfig |-> pathToConfig,
                     options |-> options,
                     builderThrows |-> builderThrows,
                     result |-> nxComponentTestingPreset(graph, pathToConfig,
                                                         options, builderThrows)]
       /\ graph' = IF graph.cached
                   THEN BackfillName(graph, OwnerOf(graph, pathToConfig))
                   ELSE graph
  /\ presetCalls' = presetCalls + 1

\* ------------------------------------------------------------ specifications

\* Remote registration: a host workspace, then addRemoteToHost calls.
Init == RemoteInit /\ CommaIdle /\ PresetIdle
Next == AddRemoteToHost /\ UNCHANGED <<commaVars, presetVars>>
Spec == Init /\ [][Next]_vars

\* checkIsCommaNeeded applied to a text.
InitComma == CommaInit /\ RemoteIdle /\ PresetIdle
NextComma == CheckIsCommaNeeded /\ UNCHANGED <<remoteVars, presetVars>>
SpecComma == InitComma /\ [][NextComma]_vars

\* nxComponentTestingPreset called against a project graph.
InitPreset == PresetInit /\ RemoteIdle /\ CommaIdle
NextPreset == NxComponentTestingPreset /\ UNCHANGED <<commaVars, remoteVars>>
SpecPreset == InitPreset /\ [][NextPreset]_vars

\* ------------------------------------------------------------------ claims

\* The last addRemoteToHost call was for a remote of the existing host project.
Registered ==
  /\ outcome # "none"
  /\ call.mfType = "remote"
  /\ call.host = HostName

\* The keys of a manifest text, and "key k has value v" in it.
ManifestKeys(text) == {text[i] : i \in {j \in 1..Len(text) : j % 2 = 1}}
ManifestHas(text, k, v) ==
  \E i \in 1..Len(text) : i % 2 = 1 /\ text[i] = k /\ text[i + 1] = v
ManifestSame(old, new, k) ==
  \E v \in Range(old) : ManifestHas(old, k, v) /\ ManifestHas(new, k, v)

\* C4: checkIsCommaNeeded returns false exactly when the text with all
\* whitespace removed is "[]" or ends with ",]", and true otherwise; "[]" gives
\* false, "[ 'a' ]" gives true and "['a',]" gives false.
C4_CommaNeededExactly ==
  commaResult # <<>> =>
    LET t == SelectSeq(commaText, LAMBDA c : c \notin {" ", "\n"})
        noComma == \/ t = <<"[", "]">>
                   \/ (Len(t) >= 2 /\ t[Len(t) - 1] = "," /\ t[Len(t)] = "]")
    IN /\ commaResult[1] = ~noComma
       /\ (commaText = <<"[", "]">> => commaResult[1] = FALSE)
       /\ (commaText = <<"[", " ", "'", "a", "'", " ", "]">> => commaResult[1] = TRUE)
       /\ (commaText = <<"[", "'", "a", "'", ",", "]">> => commaResult[1] = FALSE)

\* C4 witness: a text with whitespace inside that needs no comma.
C4_Witness ==
  /\ commaResult = <<FALSE>>
  /\ Len(commaText) >= 4
  /\ \E i \in 2..(Len(commaText) - 1) : commaText[i] \in {" ", "\n"}
  /\ "," \in Range(commaText)

\* C5: a call whose mfType is not 'remote' or whose host is not set changes
\* nothing in the tree and raises no error.
C5_NoOpUnlessRemoteWithHost ==
  (outcome # "none" /\ (call.mfType # "remote" \/ call.host = Undefined)) =>
    /\ tree = before
    /\ writes = <<>>
    /\ outcome = "returned"

\* C5 witness: a host-type call naming the host, on a tree a registration
\* would have changed.
C5_Witness ==
  /\ outcome = "returned"
  /\ call.mfType = "host"
  /\ call.host = HostName
  /\ before[MFConfigPath] # NoFile
  /\ before[BootstrapPath] # NoFile

\* C3: registering a remote against a static host (no manifest) without a
\* module-federation.config.js throws and writes no file.
C3_StaticWithoutConfigThrows ==
  (Registered /\ before[ManifestPath] = NoFile /\ before[MFConfigPath] = NoFile) =>
    /\ outcome = "threw"
    /\ writes = <<>>
    /\ tree = before

\* C3 witness: such a call on a host whose routing file and template a
\* registration would have patched.
C3_Witness ==
  /\ Registered
  /\ before[ManifestPath] = NoFile
  /\ before[MFConfigPath] = NoFile
  /\ outcome = "threw"
  /\ ForRoot \in Range(before[BootstrapPath])
  /\ MenuOpen \in Range(before[TemplatePath])

\* C6: when the app template has no <ul class="remote-menu"> list, a
\* registration leaves the template file as it was.
C6_TemplateUntouchedWithoutMenu ==
  (Registered /\ MenuOpen \notin Range(before[TemplatePath])) =>
    tree[TemplatePath] = before[TemplatePath]

\* C6 witness: the routing file was patched, so the template step was
\* reached, on a template that has a list but not the remote menu.
C6_Witness ==
  /\ Registered
  /\ outcome = "returned"
  /\ BootstrapPath \in Range(writes)
  /\ before[TemplatePath] = <<"<ul>", "<li>", "</ul>">>

\* The last call registered a remote against a dynamic host.
RegisteredDynamic == Registered /\ before[ManifestPath] # NoFile

\* C2 as stated: a registration against a dynamic host adds exactly one new
\* key to the manifest, with value http://localhost:<port>, and leaves every
\* pre-existing key and its value unchanged.
C2_ExactlyOneNewKey ==
  RegisteredDynamic =>
    LET old == before[ManifestPath]
        new == tree[ManifestPath]
    IN /\ Cardinality(ManifestKeys(new) \ ManifestKeys(old)) = 1
       /\ \E k \in ManifestKeys(new) \ ManifestKeys(old) :
            ManifestHas(new, k, "http://localhost:" \o call.port)
       /\ \A k \in ManifestKeys(old) : ManifestSame(old, new, k)

\* C2 as amended: afterwards the key <appName> has the value
\* http://localhost:<port>, every other pre-existing key keeps its value, and
\* no key other than <appName> is new; exactly one key is new when <appName>
\* was not a key of the manifest, and none when it was (its value is replaced).
C2_AppNameKeySetOthersKept ==
  RegisteredDynamic =>
    LET old == before[ManifestPath]
        new == tree[ManifestPath]
    IN /\ ManifestHas(new, call.appName, "http://localhost:" \o call.port)
       /\ \A k \in ManifestKeys(old) \ {call.appName} : ManifestSame(old, new, k)
       /\ ManifestKeys(new) = ManifestKeys(old) \cup {call.appName}
       /\ Len(new) = Len(old) + (IF call.appName \in ManifestKeys(old) THEN 0 ELSE 2)

\* C2 witness: a new remote registered in a manifest that had entries.
C2_Witness ==
  /\ RegisteredDynamic
  /\ before[ManifestPath] # <<>>
  /\ call.appName \notin ManifestKeys(before[ManifestPath])
  /\ ManifestHas(tree[ManifestPath], call.appName, "http://localhost:" \o call.port)

\* The file the routing patch is meant for, on the tree before the call.
RoutingEntryPoint(t) ==
  IF t[BootstrapPath] # NoFile /\ "bootstrapModule" \in Range(t[BootstrapPath])
  THEN AppModulePath ELSE BootstrapPath

\* C7: when the routing entry point (bootstrap.ts, or app/app.module.ts for a
\* non-standalone host) does not exist or lacks RouterModule.forRoot(, the
\* routing step is a silent no-op: no error, no routing file changed; also
\* when bootstrap.ts itself is absent.
C7_RoutingSkippedSilently ==
  (/\ Registered
   /\ DeclarationPath \in Range(writes)
   /\ LET entry == before[RoutingEntryPoint(before)]
      IN entry = NoFile \/ ForRoot \notin Range(entry)) =>
    /\ outcome = "returned"
    /\ tree[BootstrapPath] = before[BootstrapPath]
    /\ tree[AppModulePath] = before[AppModulePath]

\* C7, the part the code keeps: with bootstrap.ts present, a routing entry
\* point that is missing or lacks RouterModule.forRoot( is skipped silently.
C7_SkippedWhenBootstrapPresent ==
  (/\ Registered
   /\ DeclarationPath \in Range(writes)
   /\ before[BootstrapPath] # NoFile
   /\ LET entry == before[RoutingEntryPoint(before)]
      IN entry = NoFile \/ ForRoot \notin Range(entry)) =>
    /\ outcome = "returned"
    /\ tree[BootstrapPath] = before[BootstrapPath]
    /\ tree[AppModulePath] = before[AppModulePath]

\* The position of the </ul> that closes the remote-menu list of template t.
MenuBlockClose(t) ==
  LET open == CHOOSE i \in 1..Len(t) :
                t[i] = MenuOpen /\ \A j \in 1..(i - 1) : t[j] # MenuOpen
  IN CHOOSE i \in (open + 1)..Len(t) :
       t[i] = MenuClose /\ \A j \in (open + 1)..(i - 1) : t[j] # MenuClose

HasMenuBlock(t) ==
  \E i \in 1..Len(t) : t[i] = MenuOpen /\ \E j \in (i + 1)..Len(t) : t[j] = MenuClose

\* C8: a registration that completes against a host whose template has a
\* <ul class="remote-menu">...</ul> block leaves the template with a new
\* <li><a routerLink='<appName>'>...</a></li> entry immediately before the
\* closing </ul> of that block and the rest unchanged, whether the routing
\* entry point was patched or skipped and whatever other lists there are.
C8_MenuEntryInserted ==
  (Registered /\ outcome = "returned" /\ HasMenuBlock(before[TemplatePath])) =>
    LET t == before[TemplatePath]
        close == MenuBlockClose(t)
    IN \E label \in {"A", "B"} :
         tree[TemplatePath] =
           SubSeq(t, 1, close - 1)
             \o <<"<li><a routerLink='", call.appName, "'>", label, "</a></li>", "\n">>
             \o SubSeq(t, close, Len(t))

\* C8, the part the code keeps: when the routing entry point was patched and
\* the template has the remote-menu list, the entry goes immediately before
\* the first </ul> of the template.
C8_EntryBeforeFirstClose ==
  (/\ Registered
   /\ outcome = "returned"
   /\ RoutingEntryPoint(before) \in Range(writes)
   /\ HasMenuBlock(before[TemplatePath])) =>
    LET t == before[TemplatePath]
        close == CHOOSE i \in 1..Len(t) :
                   t[i] = MenuClose /\ \A j \in 1..(i - 1) : t[j] # MenuClose
    IN tree[TemplatePath] =
         SubSeq(t, 1, close - 1)
           \o <<"<li><a routerLink='", call.appName, "'>",
                IF call.appName = "a" THEN "A" ELSE "B", "</a></li>", "\n">>
           \o SubSeq(t, close, Len(t))

\* The step of a registration that writes a path: 1 the federation config
\* artifact, 2 remotes.d.ts, 3 the routing entry point, 4 the app template.
WriteStep(path) ==
  IF path \in {MFConfigPath, ManifestPath} THEN 1
  ELSE IF path = DeclarationPath THEN 2
  ELSE IF path \in {BootstrapPath, AppModulePath} THEN 3
  ELSE 4

\* C9: a registration writes the federation config artifact (the config of a
\* static host, the manifest of a dynamic one) first, then remotes.d.ts, then
\* the routing entry point, then the app template; and nothing is rolled
\* back: also when a later step throws, the config or manifest entry and the
\* appended "declare module '<appName>/Routes|Module';" line are in the tree.
C9_WriteOrderNoRollback ==
  Registered =>
    /\ \A i, j \in 1..Len(writes) : i < j => WriteStep(writes[i]) <= WriteStep(writes[j])
    /\ \A i, j \in 1..Len(writes) :
         (i # j /\ writes[i] = writes[j]) => WriteStep(writes[i]) = 3
    /\ Len(writes) >= 1 =>
         writes[1] = (IF before[ManifestPath] = NoFile THEN MFConfigPath ELSE ManifestPath)
    /\ Len(writes) >= 2 => writes[2] = DeclarationPath
    /\ Len(writes) >= 3 => writes[3] = RoutingEntryPoint(before)
    /\ ManifestPath \in Range(writes) =>
         ManifestHas(tree[ManifestPath], call.appName, "http://localhost:" \o call.port)
    /\ MFConfigPath \in Range(writes) =>
         /\ Len(tree[MFConfigPath]) > Len(before[MFConfigPath])
         /\ \E i \in 1..(Len(tree[MFConfigPath]) - 4) :
              SubSeq(tree[MFConfigPath], i, i + 4) = <<"'", call.appName, "'", ",", "]">>
    /\ DeclarationPath \in Range(writes) =>
         LET old == IF before[DeclarationPath] = NoFile THEN <<>> ELSE before[DeclarationPath]
         IN tree[DeclarationPath] =
              old \o <<"\n", "declare module '", call.appName, "/",
                       IF call.standalone THEN "Routes" ELSE "Module", "';">>

\* C9 witness: the template step threw after the config, the declaration and
\* the routing entry point had been written.
C9_Witness ==
  /\ Registered
  /\ outcome = "threw"
  /\ Len(writes) >= 3
  /\ before[TemplatePath] = NoFile
  /\ before[DeclarationPath] # NoFile

\* The text of the remotes array of a config file text.
RemotesArray(config) == NodeText(config, RemotesNode(config))

\* An array literal text whose elements are quoted names separated by exactly
\* one comma, with at most one trailing comma; whitespace and comments may
\* stand between the tokens.
RECURSIVE ArrayItems(_, _)
ArrayItems(s, elementNext) ==
  IF s = <<>> THEN FALSE
  ELSE IF s = <<"]">> THEN TRUE
  ELSE IF elementNext
  THEN /\ Len(s) >= 3
       /\ s[1] = "'" /\ s[2] \notin {"'", ",", "[", "]"} /\ s[3] = "'"
       /\ ArrayItems(SubSeq(s, 4, Len(s)), FALSE)
  ELSE s[1] = "," /\ ArrayItems(Tail(s), TRUE)

OneCommaBetweenElements(arrayText) ==
  LET s == SelectSeq(arrayText, LAMBDA c : c \notin {" ", "\n", "/**/"})
  IN s # <<>> /\ s[1] = "[" /\ ArrayItems(Tail(s), TRUE)

\* The static registration wrote the config: the text before the array's
\* closing bracket and from it on are kept, and what stands between is
\* '<appName>', after a comma exactly when commaNeeded.
SplicedBeforeBracket(old, new, appName) ==
  LET close == RemotesNode(old)[2]
      commaNeeded == checkIsCommaNeeded(RemotesArray(old))
      inserted == (IF commaNeeded THEN <<",">> ELSE <<>>) \o <<"'", appName, "'", ",">>
  IN /\ Len(new) = Len(old) + Len(inserted)
     /\ SubSeq(new, 1, close - 1) = SubSeq(old, 1, close - 1)
     /\ SubSeq(new, close, close + Len(inserted) - 1) = inserted
     /\ SubSeq(new, close + Len(inserted), Len(new)) = SubSeq(old, close, Len(old))

HasRemotesArray(config) == config # NoFile /\ RemotesNode(config) # NoNode

\* C10: the rewritten static config is the original with '<appName>',
\* (after a comma exactly when checkIsCommaNeeded holds of the array's text)
\* inserted immediately before the closing bracket of the remotes array,
\* everything else verbatim; so after any sequence of static registrations
\* from a well-formed array, adjacent elements are separated by exactly one comma.
C10_SpliceKeepsOneComma ==
  /\ (Registered /\ MFConfigPath \in Range(writes)) =>
       SplicedBeforeBracket(before[MFConfigPath], tree[MFConfigPath], call.appName)
  /\ HasRemotesArray(tree[MFConfigPath]) =>
       OneCommaBetweenElements(RemotesArray(tree[MFConfigPath]))

\* C10, the part the code keeps: the splice itself is verbatim.
C10_SpliceVerbatim ==
  (Registered /\ MFConfigPath \in Range(writes)) =>
    SplicedBeforeBracket(before[MFConfigPath], tree[MFConfigPath], call.appName)

\* C10, the part the code keeps: an array that starts without comments stays
\* separated by exactly one comma.
C10_OneCommaWithoutComments ==
  (HasRemotesArray(tree[MFConfigPath]) /\ "/**/" \notin Range(tree[MFConfigPath])) =>
    OneCommaBetweenElements(RemotesArray(tree[MFConfigPath]))

\* A step of the graph-based resolution fails for the call p: loading the
\* graph, mapping the config path to a project, reading the component-test
\* target's options, a missing or empty devServerTarget, a missing build
\* project or component-test project node, or building the bundler config.
ResolutionFails(p) ==
  LET g == p.graph
      owner == IF p.pathToConfig.isFile THEN g.fileOwner ELSE Undefined
  IN \/ ~g.cached
     \/ owner = Undefined
     \/ ~HasData(g, owner)
     \/ LET name == IF g.nodes[owner].name = Undefined THEN owner ELSE g.nodes[owner].name
            targetName == IF p.options.ctTargetName \in {Undefined, ""}
                          THEN "component-test" ELSE p.options.ctTargetName
        IN \/ ~HasData(g, name)
           \/ ~g.nodes[name].targets[targetName].exists
           \/ g.nodes[name].targets[targetName].devServerTarget \in {<<Undefined>>, <<>>}
           \/ LET buildTarget == g.nodes[name].targets[targetName].devServerTarget
                  buildProject == buildTarget[1]
              IN \/ ~HasData(g, buildProject)
                 \/ ~g.nodes[buildProject].targets[buildTarget[3]].exists
                 \/ p.builderThrows

\* C1: whenever a step of the graph-based resolution fails, the call still
\* returns a preset whose devServer.webpackConfig is the fallback built with
\* tsConfigPath 'tsconfig.cy.json' and compiler 'babel', after a warning
\* carrying the caught error was logged.
C1_FallbackOnAnyFailure ==
  (preset.called /\ ResolutionFails(preset)) =>
    /\ preset.result.returned
    /\ preset.result.devServer.webpackConfig =
         [builder |-> "buildBaseWebpackConfig", tsConfigPath |-> "tsconfig.cy.json",
          compiler |-> "babel"]
    /\ preset.result.devServer.framework = "react"
    /\ preset.result.devServer.bundler = "webpack"
    /\ Len(preset.result.warnings) = 2
    /\ preset.result.warnings[2] # NoError

\* C1 witness: the graph is loaded and the component-test target is read, but
\* its devServerTarget names a project the graph does not have.
C1_Witness ==
  /\ preset.called
  /\ preset.graph.cached
  /\ preset.pathToConfig.isFile
  /\ HasData(preset.graph, "lib")
  /\ preset.graph.fileOwner = "lib"
  /\ preset.graph.nodes["lib"].targets["component-test"].devServerTarget
       = <<"ghost", ":", "build">>
  /\ preset.options.ctTargetName = Undefined
  /\ preset.result.warnings[2] = "Error: Unable to load project configs from graph"
  /\ preset.result.devServer.webpackConfig.builder = "buildBaseWebpackConfig"

\* C1, the other direction: a call none of whose steps fails returns the
\* graph-based config and logs nothing.
C1_ResolvedOtherwise ==
  (preset.called /\ ~ResolutionFails(preset)) =>
    /\ preset.result.returned
    /\ preset.result.devServer.webpackConfig.builder = "getWebConfig"
    /\ preset.result.devServer.webpackConfig.isDevServer
    /\ preset.result.warnings = <<>>

====
